---- MODULE Spec2Model ----
(***************************************************************************)
(* The fixed-tick simulation of src/game/mod.rs: the player controller,    *)
(* the height tracker, the platform/hazard spawner and the damage          *)
(* evaluator, run by the FixedUpdate schedule that plugin() registers.     *)
(*                                                                         *)
(* Units: positions and velocities are the source's f32 values restricted  *)
(* to integers; the clock's delta is a whole number of seconds (dt), and   *)
(* timers count milliseconds.  Entities are records; a query is a set.     *)
(* Commands (spawn, despawn) are deferred: they are queued in the pend_*   *)
(* variables and applied at the next synchronisation point.                *)
(***************************************************************************)
EXTENDS Integers, FiniteSets, Sequences, TLC

VARIABLES
    players,                    \* entities with Player (0 or 1 record)
    platforms,                  \* entities with Platform
    hazards,                    \* entities with DamageSource
    screen_height,              \* Res<ScreenHeight>
    last_platform_spawn_height, \* Res<LastPlatformSpawnHeight>
    non_initial,                \* platform_spawner's Local<bool>
    camera_y,                   \* the camera's translation.y
    pend_platforms,             \* queued spawn commands (platforms)
    pend_hazards,               \* queued spawn commands (hazards)
    pend_despawn,               \* queued despawn of the player entity
    running,                    \* a FixedUpdate run is in progress
    done,                       \* systems that completed in this run
    dt,                         \* time.delta_seconds() of this run
    ticks,                      \* number of runs started
    iters,                      \* history: spawner loop iterations this run
    entry_gap,                  \* history: frontier backlog when the spawner was entered
    last_incr,                  \* history: amount the last iteration added
    kill_saw,                   \* history: what damage evaluation saw this run
    absent_at_start,            \* history: the run started without a player
    keys                        \* history: the key states the control step read this run

vars == <<players, platforms, hazards, screen_height, last_platform_spawn_height,
          non_initial, camera_y, pend_platforms, pend_hazards, pend_despawn,
          running, done, dt, ticks, iters, entry_gap, last_incr, kill_saw,
          absent_at_start, keys>>

(***************************************************************************)
(* Bounds of the model.                                                    *)
(***************************************************************************)
MaxTicks == 3
MaxDt == 2
MaxIters == 3

(***************************************************************************)
(* Program constants.                                                      *)
(***************************************************************************)
JUMP_VELOCITY == 575
GRAVITY == 225
MAX_FALL_SPEED == 700
HORIZONTAL_ACCELERATION == 550
MAX_HORIZONTAL_SPEED == 460
SPAWN_VELOCITY_Y == 550
MIN_DISTANCE == 175
SPAWN_BOUNDS == 128
SCREEN_WIDTH == 128
STANDARD_DEVIATION == 25
CAMERA_OFFSET == 250
HALF_X_DISTANCE == 325
TIMER_MILLIS == 1250
SPRITE_SCALE == 1

(***************************************************************************)
(* Values the random generator and the input devices are sampled at.       *)
(***************************************************************************)
PlatformXDraws == {-STANDARD_DEVIATION, 0, STANDARD_DEVIATION}
OffsetDraws == {75, 125}
EnemyXDraws == {35}
EnemyYDraws == {-20, 20}

Abs(n) == IF n < 0 THEN -n ELSE n
Max(a, b) == IF a >= b THEN a ELSE b
Min(a, b) == IF a <= b THEN a ELSE b

(***************************************************************************)
(* Box and Box::test_overlap.                                              *)
(***************************************************************************)
Box(e) == [width |-> e.width, height |-> e.height]
Pos(e) == [x |-> e.x, y |-> e.y]

TestOverlapBothAxes(self, self_pos, other, other_pos) ==
    /\ Abs(self_pos.x - other_pos.x) <= self.width + other.width
    /\ Abs(self_pos.y - other_pos.y) <= self.height + other.height

TestOverlapSelfExtent(self, self_pos, other, other_pos) ==
    \/ Abs(self_pos.x - other_pos.x) <= self.width
    \/ Abs(self_pos.y - other_pos.y) <= self.height

test_overlap(self, self_pos, other, other_pos) ==
    LET combined_width == self.width + other.width
        combined_height == self.height + other.height
        x_distance == Abs(self_pos.x - other_pos.x)
        y_distance == Abs(self_pos.y - other_pos.y)
    IN  x_distance <= combined_width \/ y_distance <= combined_height

(***************************************************************************)
(* Entities as the spawn functions build them.                             *)
(***************************************************************************)
PlayerEntity ==
    [x |-> 0, y |-> 0, vx |-> 0, vy |-> SPAWN_VELOCITY_Y,
     width |-> SPRITE_SCALE, height |-> SPRITE_SCALE]

PlatformEntity(x, spawn_height) ==
    [x |-> x, y |-> spawn_height, width |-> SPRITE_SCALE, height |-> SPRITE_SCALE]

SpikesEntityCentred(x, y) ==
    [x |-> 0, y |-> y, width |-> SPRITE_SCALE, height |-> SPRITE_SCALE,
     mode |-> "Static", elapsed |-> 0,
     l0x |-> 0, l0y |-> y, l1x |-> 0, l1y |-> y]

SpikesEntity(x, y) ==
    [x |-> x, y |-> y, width |-> SPRITE_SCALE, height |-> SPRITE_SCALE,
     mode |-> "Static", elapsed |-> 0,
     l0x |-> x, l0y |-> y, l1x |-> x, l1y |-> y]

EnemyEntity(spawn_height_source, jx0, jy0, jx1, jy1) ==
    [x |-> -(HALF_X_DISTANCE + jx0), y |-> spawn_height_source + jy0,
     width |-> SPRITE_SCALE, height |-> SPRITE_SCALE,
     mode |-> "Forward", elapsed |-> 0,
     l0x |-> -(HALF_X_DISTANCE + jx0), l0y |-> spawn_height_source + jy0,
     l1x |-> HALF_X_DISTANCE + jx1, l1y |-> spawn_height_source + jy1]

(***************************************************************************)
(* The systems' effects, as functions of what they read.                   *)
(***************************************************************************)

\* player_horizontal_control: the new velocity.x
HorizontalControlNoClamp(vx, left_press, right_press, delta) ==
    CASE left_press /\ ~right_press -> vx - HORIZONTAL_ACCELERATION * delta
      [] ~left_press /\ right_press -> vx + HORIZONTAL_ACCELERATION * delta
      [] OTHER -> vx

HorizontalControlLeftWins(vx, left_press, right_press, delta) ==
    CASE left_press ->
            Max(-MAX_HORIZONTAL_SPEED, vx - HORIZONTAL_ACCELERATION * delta)
      [] ~left_press /\ right_press ->
            Min(MAX_HORIZONTAL_SPEED, vx + HORIZONTAL_ACCELERATION * delta)
      [] OTHER -> vx

HorizontalControl(vx, left_press, right_press, delta) ==
    CASE left_press /\ ~right_press ->
            Max(-MAX_HORIZONTAL_SPEED, vx - HORIZONTAL_ACCELERATION * delta)
      [] ~left_press /\ right_press ->
            Min(MAX_HORIZONTAL_SPEED, vx + HORIZONTAL_ACCELERATION * delta)
      [] OTHER -> vx

\* step_physics on one entity: translation += velocity * delta
Integrate(e, delta) == [e EXCEPT !.x = e.x + e.vx * delta, !.y = e.y + e.vy * delta]

\* step_interpolation on one entity carrying Line and Interpolator; the
\* repeating timer of TIMER_MILLIS wraps its elapsed time when it finishes
InterpolateFlipAlways(e, delta_millis) ==
    IF e.mode = "Static" THEN e
    ELSE LET elapsed == (e.elapsed + delta_millis) % TIMER_MILLIS
             mode == IF e.mode = "Forward" THEN "Backward"
                     ELSE IF e.mode = "Backward" THEN "Forward"
                     ELSE e.mode
             num == IF mode = "Backward" THEN TIMER_MILLIS - elapsed ELSE elapsed
         IN  [e EXCEPT !.elapsed = elapsed, !.mode = mode,
                       !.x = e.l0x + ((e.l1x - e.l0x) * num) \div TIMER_MILLIS,
                       !.y = e.l0y + ((e.l1y - e.l0y) * num) \div TIMER_MILLIS]

InterpolateNoMirror(e, delta_millis) ==
    IF e.mode = "Static" THEN e
    ELSE LET total == e.elapsed + delta_millis
             finished == total >= TIMER_MILLIS
             elapsed == total % TIMER_MILLIS
             mode == IF finished /\ e.mode = "Forward" THEN "Backward"
                     ELSE IF finished /\ e.mode = "Backward" THEN "Forward"
                     ELSE e.mode
         IN  [e EXCEPT !.elapsed = elapsed, !.mode = mode,
                       !.x = e.l0x + ((e.l1x - e.l0x) * elapsed) \div TIMER_MILLIS,
                       !.y = e.l0y + ((e.l1y - e.l0y) * elapsed) \div TIMER_MILLIS]

\* the loop body of step_interpolation for a time.delta() of delta_millis
InterpolateMillis(e, delta_millis) ==
    IF e.mode = "Static" THEN e
    ELSE LET total == e.elapsed + delta_millis
             finished == total >= TIMER_MILLIS
             elapsed == total % TIMER_MILLIS
             mode == IF finished /\ e.mode = "Forward" THEN "Backward"
                     ELSE IF finished /\ e.mode = "Backward" THEN "Forward"
                     ELSE e.mode
             num == IF mode = "Backward" THEN TIMER_MILLIS - elapsed ELSE elapsed
         IN  [e EXCEPT !.elapsed = elapsed, !.mode = mode,
                       !.x = e.l0x + ((e.l1x - e.l0x) * num) \div TIMER_MILLIS,
                       !.y = e.l0y + ((e.l1y - e.l0y) * num) \div TIMER_MILLIS]

Interpolate(e, delta) == InterpolateMillis(e, 1000 * delta)

\* keep_player_in_bounds on the player
KeepInBoundsKeepSpeed(p) ==
    LET allowed_width == SCREEN_WIDTH - p.width
    IN  IF ~(-allowed_width <= p.x /\ p.x <= allowed_width)
        THEN [p EXCEPT !.x = Max(-allowed_width, Min(allowed_width, p.x))]
        ELSE p

KeepInBounds(p) ==
    LET allowed_width == SCREEN_WIDTH - p.width
    IN  IF ~(-allowed_width <= p.x /\ p.x <= allowed_width)
        THEN [p EXCEPT !.x = Max(-allowed_width, Min(allowed_width, p.x)), !.vx = 0]
        ELSE p

\* screen_tracking: the new ScreenHeight, given the Player query's result
TrackedHeightNoGuard(ps, height) ==
    IF Cardinality(ps) = 1
    THEN LET p == CHOOSE q \in ps : TRUE IN p.y
    ELSE height

TrackedHeightAbsentRises(ps, height) ==
    IF Cardinality(ps) = 1
    THEN LET p == CHOOSE q \in ps : TRUE
         IN  IF p.y >= height THEN p.y ELSE height
    ELSE height + MIN_DISTANCE

TrackedHeightAbsentZero(ps, height) ==
    IF Cardinality(ps) = 1
    THEN LET p == CHOOSE q \in ps : TRUE
         IN  IF p.y >= height THEN p.y ELSE height
    ELSE 0

TrackedHeight(ps, height) ==
    IF Cardinality(ps) = 1
    THEN LET p == CHOOSE q \in ps : TRUE
         IN  IF p.y >= height THEN p.y ELSE height
    ELSE height

\* platform_spawner: the loop condition and the height it spawns at
SpawnerPendingStrict(height, last) == height + SPAWN_BOUNDS > last + MIN_DISTANCE

SpawnerPendingNoDistance(height, last) == height + SPAWN_BOUNDS + MIN_DISTANCE >= last

SpawnerPending(height, last) == height + SPAWN_BOUNDS >= last + MIN_DISTANCE

SpawnHeightSignSlip(height, last) == height + SPAWN_BOUNDS - MIN_DISTANCE

SpawnHeightStepwise(height, last) == last + MIN_DISTANCE

SpawnHeightNoDistance(height, last) == height + SPAWN_BOUNDS

SpawnHeight(height, last) == height + SPAWN_BOUNDS + MIN_DISTANCE

\* platform_spawner: whether this iteration may spawn hazards
HazardsAllowedAlways(flag) == TRUE

HazardsAllowed(flag) == flag

\* player_falling_jumping: the new velocity.y
FallingJumpingOnContact(p, plats, delta) ==
    IF \E pl \in plats : test_overlap(Box(p), Pos(p), Box(pl), Pos(pl))
    THEN JUMP_VELOCITY
    ELSE Max(-MAX_FALL_SPEED, p.vy - GRAVITY * delta)

FallingJumpingNoFloor(p, plats, delta) ==
    IF 10 * p.vy <= 1
       /\ \E pl \in plats : test_overlap(Box(p), Pos(p), Box(pl), Pos(pl))
    THEN JUMP_VELOCITY
    ELSE p.vy - GRAVITY * delta

FallingJumping(p, plats, delta) ==
    IF 10 * p.vy <= 1
       /\ \E pl \in plats : test_overlap(Box(p), Pos(p), Box(pl), Pos(pl))
    THEN JUMP_VELOCITY
    ELSE Max(-MAX_FALL_SPEED, p.vy - GRAVITY * delta)

\* kill_player_on_damage: whether the player is despawned
DamagedNever(p, damagers) == FALSE

Damaged(p, damagers) ==
    \E d \in damagers : test_overlap(Box(p), Pos(p), Box(d), Pos(d))

(***************************************************************************)
(* The FixedUpdate schedule of plugin().  A tuple of systems is unordered  *)
(* unless .chain() is called on it; apply_deferred is the synchronisation  *)
(* point the chain (platform_spawner, player_falling_jumping) inserts      *)
(* because platform_spawner queues commands.                               *)
(***************************************************************************)
Group1 == {"player_horizontal_control", "step_physics", "step_interpolation"}
Group2 == {"keep_player_in_bounds", "screen_tracking"}
Group3 == {"platform_spawner", "player_falling_jumping", "kill_player_on_damage"}

Systems == Group1 \cup Group2 \cup Group3 \cup {"apply_deferred"}

BeforeInnerOnly ==
    {<<"player_horizontal_control", "step_physics">>,
     <<"platform_spawner", "apply_deferred">>,
     <<"apply_deferred", "player_falling_jumping">>,
     <<"platform_spawner", "player_falling_jumping">>}

Before ==
    {<<"player_horizontal_control", "step_physics">>}
    \cup (Group1 \X Group2)
    \cup (Group2 \X Group3)
    \cup {<<"platform_spawner", "apply_deferred">>,
          <<"apply_deferred", "player_falling_jumping">>,
          <<"platform_spawner", "player_falling_jumping">>}

Ready(s) ==
    /\ running
    /\ s \notin done
    /\ \A pr \in Before : pr[2] = s => pr[1] \in done

ThePlayer == CHOOSE p \in players : TRUE
PlayerFound == Cardinality(players) = 1

Frame == <<running, dt, ticks, absent_at_start>>
Entities == <<players, platforms, hazards>>
Queues == <<pend_platforms, pend_hazards, pend_despawn>>
Frontiers == <<screen_height, last_platform_spawn_height, non_initial, camera_y>>
SpawnHistory == <<iters, entry_gap, last_incr>>

(***************************************************************************)
(* The state after App construction and the Startup schedule.              *)
(***************************************************************************)
Init ==
    /\ players = {PlayerEntity}
    /\ platforms = {}
    /\ hazards = {}
    /\ screen_height = 0
    /\ last_platform_spawn_height = 0
    /\ non_initial = FALSE
    /\ camera_y = 0
    /\ pend_platforms = {}
    /\ pend_hazards = {}
    /\ pend_despawn = FALSE
    /\ running = FALSE
    /\ done = Systems
    /\ dt = 1
    /\ ticks = 0
    /\ iters = 0
    /\ entry_gap = 0
    /\ last_incr = 0
    /\ kill_saw = "none"
    /\ absent_at_start = FALSE
    /\ keys = [left |-> FALSE, right |-> FALSE]

\* the fixed-rate clock starts one run of FixedUpdate
BeginTick ==
    /\ ~running
    /\ ticks < MaxTicks
    /\ running' = TRUE
    /\ done' = {}
    /\ dt' \in 1..MaxDt
    /\ ticks' = ticks + 1
    /\ iters' = 0
    /\ entry_gap' = 0
    /\ kill_saw' = "none"
    /\ absent_at_start' = (players = {})
    /\ UNCHANGED <<Entities, Queues, Frontiers, last_incr, keys>>

player_horizontal_control ==
    /\ Ready("player_horizontal_control")
    /\ done' = done \cup {"player_horizontal_control"}
    /\ IF PlayerFound
       THEN \E left_press \in BOOLEAN, right_press \in BOOLEAN :
               /\ players' = {[ThePlayer EXCEPT
                                 !.vx = HorizontalControl(ThePlayer.vx, left_press,
                                                          right_press, dt)]}
               /\ keys' = [left |-> left_press, right |-> right_press]
       ELSE UNCHANGED <<players, keys>>
    /\ UNCHANGED <<platforms, hazards, Queues, Frontiers, Frame, SpawnHistory, kill_saw>>

step_physics ==
    /\ Ready("step_physics")
    /\ done' = done \cup {"step_physics"}
    /\ players' = {Integrate(p, dt) : p \in players}
    /\ UNCHANGED <<platforms, hazards, Queues, Frontiers, Frame, keys, SpawnHistory, kill_saw>>

step_interpolation ==
    /\ Ready("step_interpolation")
    /\ done' = done \cup {"step_interpolation"}
    /\ hazards' = {Interpolate(e, dt) : e \in hazards}
    /\ UNCHANGED <<players, platforms, Queues, Frontiers, Frame, keys, SpawnHistory, kill_saw>>

keep_player_in_bounds ==
    /\ Ready("keep_player_in_bounds")
    /\ done' = done \cup {"keep_player_in_bounds"}
    /\ players' = IF PlayerFound THEN {KeepInBounds(ThePlayer)} ELSE players
    /\ UNCHANGED <<platforms, hazards, Queues, Frontiers, Frame, keys, SpawnHistory, kill_saw>>

screen_tracking ==
    /\ Ready("screen_tracking")
    /\ done' = done \cup {"screen_tracking"}
    /\ screen_height' = TrackedHeight(players, screen_height)
    /\ camera_y' = IF PlayerFound /\ ThePlayer.y >= screen_height
                   THEN screen_height' + CAMERA_OFFSET
                   ELSE camera_y
    /\ UNCHANGED <<Entities, Queues, last_platform_spawn_height, non_initial,
                   Frame, keys, SpawnHistory, kill_saw>>

\* one evaluation of platform_spawner's loop condition that enters the body
platform_spawner_iterate ==
    /\ Ready("platform_spawner")
    /\ SpawnerPending(screen_height, last_platform_spawn_height)
    /\ last_platform_spawn_height' = SpawnHeight(screen_height, last_platform_spawn_height)
    /\ \E x \in PlatformXDraws :
          /\ pend_platforms' =
                pend_platforms \cup {PlatformEntity(x, last_platform_spawn_height')}
          /\ IF HazardsAllowed(non_initial)
             THEN /\ \E offset \in OffsetDraws, spikes \in BOOLEAN, enemy \in BOOLEAN,
                        jx0 \in EnemyXDraws, jy0 \in EnemyYDraws,
                        jx1 \in EnemyXDraws, jy1 \in EnemyYDraws :
                        pend_hazards' = pend_hazards
                           \cup (IF spikes
                                 THEN {SpikesEntity(x, last_platform_spawn_height' + offset)}
                                 ELSE {})
                           \cup (IF enemy
                                 THEN {EnemyEntity(last_platform_spawn_height' + offset,
                                                   jx0, jy0, jx1, jy1)}
                                 ELSE {})
                  /\ non_initial' = non_initial
             ELSE /\ pend_hazards' = pend_hazards
                  /\ non_initial' = TRUE
    /\ iters' = Min(iters + 1, MaxIters)
    /\ entry_gap' = IF iters = 0
                    THEN screen_height + SPAWN_BOUNDS - last_platform_spawn_height
                    ELSE entry_gap
    /\ last_incr' = last_platform_spawn_height' - last_platform_spawn_height
    /\ UNCHANGED <<Entities, pend_despawn, screen_height, camera_y, Frame, keys, done, kill_saw>>

\* the evaluation of the loop condition that leaves platform_spawner
platform_spawner_exit ==
    /\ Ready("platform_spawner")
    /\ ~SpawnerPending(screen_height, last_platform_spawn_height)
    /\ done' = done \cup {"platform_spawner"}
    /\ entry_gap' = IF iters = 0
                    THEN screen_height + SPAWN_BOUNDS - last_platform_spawn_height
                    ELSE entry_gap
    /\ UNCHANGED <<Entities, Queues, Frontiers, Frame, keys, iters, last_incr, kill_saw>>

\* the queued commands of the systems that have run take effect
ApplyQueues ==
    /\ platforms' = platforms \cup pend_platforms
    /\ hazards' = hazards \cup pend_hazards
    /\ players' = IF pend_despawn THEN {} ELSE players
    /\ pend_platforms' = {}
    /\ pend_hazards' = {}
    /\ pend_despawn' = FALSE

apply_deferred ==
    /\ Ready("apply_deferred")
    /\ done' = done \cup {"apply_deferred"}
    /\ ApplyQueues
    /\ UNCHANGED <<Frontiers, Frame, keys, SpawnHistory, kill_saw>>

player_falling_jumping ==
    /\ Ready("player_falling_jumping")
    /\ done' = done \cup {"player_falling_jumping"}
    /\ players' = IF PlayerFound
                  THEN {[ThePlayer EXCEPT !.vy = FallingJumping(ThePlayer, platforms, dt)]}
                  ELSE players
    /\ UNCHANGED <<platforms, hazards, Queues, Frontiers, Frame, keys, SpawnHistory, kill_saw>>

kill_player_on_damage ==
    /\ Ready("kill_player_on_damage")
    /\ done' = done \cup {"kill_player_on_damage"}
    /\ pend_despawn' = IF PlayerFound /\ Damaged(ThePlayer, hazards)
                       THEN TRUE
                       ELSE pend_despawn
    /\ kill_saw' = IF ~PlayerFound THEN "absent"
                   ELSE IF \E d \in hazards :
                              test_overlap(Box(ThePlayer), Pos(ThePlayer), Box(d), Pos(d))
                        THEN "overlap"
                        ELSE "clear"
    /\ UNCHANGED <<Entities, pend_platforms, pend_hazards, Frontiers, Frame, keys, SpawnHistory>>

\* the run of FixedUpdate ends: the remaining queued commands take effect
EndTick ==
    /\ running
    /\ done = Systems
    /\ running' = FALSE
    /\ ApplyQueues
    /\ keys' = [left |-> FALSE, right |-> FALSE]
    /\ UNCHANGED <<Frontiers, done, dt, ticks, absent_at_start, SpawnHistory, kill_saw>>

Next ==
    \/ BeginTick
    \/ player_horizontal_control
    \/ step_physics
    \/ step_interpolation
    \/ keep_player_in_bounds
    \/ screen_tracking
    \/ platform_spawner_iterate
    \/ platform_spawner_exit
    \/ apply_deferred
    \/ player_falling_jumping
    \/ kill_player_on_damage
    \/ EndTick

Spec == Init /\ [][Next]_vars

(***************************************************************************)
(* platform_spawner on its own: one run of the system entered with the     *)
(* frontiers drawn from bounded sets.  The flag is clear exactly while     *)
(* nothing has been spawned (LastPlatformSpawnHeight still 0).             *)
(***************************************************************************)
LastDraws == {0} \cup {h + SPAWN_BOUNDS + MIN_DISTANCE : h \in {47, 550, 1100}}
RiseDraws == {-303, -100, 0, 46, 47, 48, 222, 397, 1000}

SpawnerInit ==
    /\ \E last \in LastDraws, rise \in RiseDraws :
          /\ last + rise >= 0
          /\ last_platform_spawn_height = last
          /\ screen_height = last + rise
    /\ non_initial = (last_platform_spawn_height # 0)
    /\ players = {[PlayerEntity EXCEPT !.y = screen_height]}
    /\ platforms = IF non_initial
                   THEN {PlatformEntity(0, last_platform_spawn_height)}
                   ELSE {}
    /\ hazards = {}
    /\ camera_y = screen_height + CAMERA_OFFSET
    /\ pend_platforms = {}
    /\ pend_hazards = {}
    /\ pend_despawn = FALSE
    /\ running = TRUE
    /\ done = Group1 \cup Group2
    /\ dt = 1
    /\ ticks = 1
    /\ iters = 0
    /\ entry_gap = 0
    /\ last_incr = 0
    /\ kill_saw = "none"
    /\ absent_at_start = FALSE
    /\ keys = [left |-> FALSE, right |-> FALSE]

SpawnerNext ==
    \/ platform_spawner_iterate
    \/ platform_spawner_exit
    \/ apply_deferred

\* a system that has started keeps executing until it returns
SpawnerSpec == SpawnerInit /\ [][SpawnerNext]_vars /\ WF_vars(SpawnerNext)

(***************************************************************************)
(* Vocabulary of the properties.                                           *)
(***************************************************************************)
Fired(s) == s \in done' /\ s \notin done
AllPlatforms == platforms \cup pend_platforms
AllHazards == hazards \cup pend_hazards
QueuedPlatforms == pend_platforms' \ pend_platforms
QueuedHazards == pend_hazards' \ pend_hazards
SpawnerReturned == running /\ "platform_spawner" \in done
EntryLast == screen_height + SPAWN_BOUNDS - entry_gap

(***************************************************************************)
(* C1: ScreenHeight never decreases from one state to the next; it changes *)
(* only in a step of screen_tracking that finds the player, and then it is *)
(* raised to the player's current y.                                       *)
(***************************************************************************)
C1_HeightMonotone ==
    [][/\ screen_height' >= screen_height
       /\ screen_height' # screen_height =>
             /\ Fired("screen_tracking")
             /\ PlayerFound
             /\ screen_height' = ThePlayer.y]_vars

\* the player has fallen below the frontier, which kept its value
C1_Witness == PlayerFound /\ screen_height > 0 /\ ThePlayer.y < screen_height

(***************************************************************************)
(* C2: entered with any frontiers, platform_spawner returns, and when it   *)
(* has returned HeightFrontier + SPAWN_BOUNDS < LastSpawnFrontier +        *)
(* MIN_DISTANCE.                                                           *)
(***************************************************************************)
C2_SpawnerQuiesces ==
    /\ <>SpawnerReturned
    /\ [](SpawnerReturned =>
             screen_height + SPAWN_BOUNDS < last_platform_spawn_height + MIN_DISTANCE)

\* the spawner returned after its loop body ran
C2_Witness ==
    /\ SpawnerReturned
    /\ iters >= 1
    /\ screen_height + SPAWN_BOUNDS < last_platform_spawn_height + MIN_DISTANCE

(***************************************************************************)
(* C3 as stated: entered with HeightFrontier = 0 and LastSpawnFrontier = 0 *)
(* the spawner runs exactly one iteration, sets LastSpawnFrontier to 303   *)
(* and spawns one platform and no hazard.                                  *)
(***************************************************************************)
C3_OneIterationFromZero ==
    (SpawnerReturned /\ screen_height = 0 /\ EntryLast = 0) =>
        /\ iters = 1
        /\ last_platform_spawn_height = 303
        /\ Cardinality(AllPlatforms) = 1
        /\ AllHazards = {}

(***************************************************************************)
(* C3 amended: entered with LastSpawnFrontier = 0 (nothing spawned yet),   *)
(* the spawner does nothing while HeightFrontier < MIN_DISTANCE -          *)
(* SPAWN_BOUNDS = 47 (so nothing from HeightFrontier = 0); from            *)
(* HeightFrontier >= 47 it runs exactly one iteration, sets                *)
(* LastSpawnFrontier to HeightFrontier + 303 and spawns one platform and   *)
(* no hazard, whatever the draws.                                          *)
(***************************************************************************)
C3_FirstRun ==
    (SpawnerReturned /\ EntryLast = 0) =>
        IF screen_height < MIN_DISTANCE - SPAWN_BOUNDS
        THEN /\ iters = 0
             /\ last_platform_spawn_height = 0
             /\ AllPlatforms = {}
             /\ AllHazards = {}
        ELSE /\ iters = 1
             /\ last_platform_spawn_height = screen_height + SPAWN_BOUNDS + MIN_DISTANCE
             /\ Cardinality(AllPlatforms) = 1
             /\ AllHazards = {}

\* the first run that spawns: entered at HeightFrontier = 47 exactly
C3_Witness ==
    /\ SpawnerReturned
    /\ EntryLast = 0
    /\ screen_height = MIN_DISTANCE - SPAWN_BOUNDS
    /\ iters = 1
    /\ last_platform_spawn_height = 350

(***************************************************************************)
(* C4 as stated: when HeightFrontier has risen far enough above            *)
(* LastSpawnFrontier (a backlog of two MIN_DISTANCE or more), one run of   *)
(* the spawner performs more than one iteration.                           *)
(***************************************************************************)
C4_CatchUpIterations ==
    (SpawnerReturned /\ entry_gap >= 2 * MIN_DISTANCE) => iters >= 2

(***************************************************************************)
(* C4 amended: one run of the spawner performs zero iterations or exactly  *)
(* one, never more, however far HeightFrontier has risen: one when         *)
(* HeightFrontier + SPAWN_BOUNDS >= LastSpawnFrontier + MIN_DISTANCE at    *)
(* entry, zero otherwise.                                                  *)
(***************************************************************************)
C4_AtMostOneIteration ==
    /\ iters <= 1
    /\ SpawnerReturned => iters = (IF entry_gap >= MIN_DISTANCE THEN 1 ELSE 0)

\* a backlog of more than two MIN_DISTANCE was answered by one iteration
C4_Witness == SpawnerReturned /\ entry_gap >= 2 * MIN_DISTANCE /\ iters = 1

(***************************************************************************)
(* C5 as stated: every spawner iteration adds the same fixed amount to     *)
(* LastSpawnFrontier.                                                      *)
(***************************************************************************)
C5_FixedIncrement ==
    [][last_platform_spawn_height' # last_platform_spawn_height =>
          \/ last_incr = 0
          \/ last_platform_spawn_height' - last_platform_spawn_height = last_incr]_vars

(***************************************************************************)
(* C5 amended: LastSpawnFrontier never decreases and changes only in a     *)
(* spawner iteration; every iteration sets it to HeightFrontier +          *)
(* SPAWN_BOUNDS + MIN_DISTANCE, which strictly increases it by at least    *)
(* 2 * MIN_DISTANCE, the amount depending on the current HeightFrontier.   *)
(***************************************************************************)
C5_StrictIncrease ==
    [][/\ last_platform_spawn_height' >= last_platform_spawn_height
       /\ last_platform_spawn_height' # last_platform_spawn_height =>
             QueuedPlatforms # {}
       /\ QueuedPlatforms # {} =>
             /\ last_platform_spawn_height' =
                   screen_height + SPAWN_BOUNDS + MIN_DISTANCE
             /\ last_platform_spawn_height' - last_platform_spawn_height
                   >= 2 * MIN_DISTANCE]_vars

\* a second iteration has run, adding another amount than the first
C5_Witness ==
    /\ last_incr >= 2 * MIN_DISTANCE
    /\ last_incr # last_platform_spawn_height
    /\ Cardinality(AllPlatforms) >= 2

(***************************************************************************)
(* C6: the warm-up flag is set once, by the iteration that spawns the      *)
(* first platform, and never reset; that iteration spawns no hazard; every *)
(* hazard is spawned by an iteration that runs with the flag set, after    *)
(* the first platform was spawned.                                         *)
(***************************************************************************)
C6_WarmUp ==
    [][/\ non_initial => non_initial'
       /\ non_initial' # non_initial =>
             /\ AllPlatforms = {}
             /\ QueuedPlatforms # {}
             /\ QueuedHazards = {}
       /\ QueuedHazards # {} =>
             /\ non_initial
             /\ AllPlatforms # {}
       /\ (AllPlatforms = {})' => (AllHazards = {} /\ ~non_initial)']_vars

\* a hazard has been spawned
C6_Witness == non_initial /\ AllHazards # {} /\ Cardinality(AllPlatforms) >= 2

(***************************************************************************)
(* C7: an iteration spawns its platform at y = the updated                 *)
(* LastSpawnFrontier = HeightFrontier + SPAWN_BOUNDS + MIN_DISTANCE, above *)
(* HeightFrontier, with x in [-25, 25]; spikes spawned by the iteration    *)
(* are at the platform's x and at y = LastSpawnFrontier + offset with      *)
(* offset in [75, 125], above HeightFrontier too.                          *)
(***************************************************************************)
C7_SpawnedAhead ==
    [][\A p \in QueuedPlatforms :
          /\ p.y = last_platform_spawn_height'
          /\ p.y = screen_height + SPAWN_BOUNDS + MIN_DISTANCE
          /\ p.y > screen_height
          /\ -STANDARD_DEVIATION <= p.x /\ p.x <= STANDARD_DEVIATION
          /\ \A h \in QueuedHazards :
                h.mode = "Static" =>
                   /\ h.x = p.x
                   /\ h.y - last_platform_spawn_height' \in 75..125
                   /\ h.y > screen_height]_vars

\* spikes were spawned on a platform that is off the centre line
C7_Witness == \E h \in AllHazards : h.mode = "Static" /\ h.x # 0

(***************************************************************************)
(* C8 as stated: within a run the systems execute in the order horizontal  *)
(* control, integration, interpolated movers, clamping, height tracking,   *)
(* spawner, jump/fall, hazard evaluation: a system starts only when every  *)
(* system listed before it has completed.                                  *)
(***************************************************************************)
ListedOrder ==
    <<"player_horizontal_control", "step_physics", "step_interpolation",
      "keep_player_in_bounds", "screen_tracking", "platform_spawner",
      "player_falling_jumping", "kill_player_on_damage">>

C8_StrictOrder ==
    [][\A i \in 1..8, j \in 1..8 :
          (i < j /\ Fired(ListedOrder[j])) => ListedOrder[i] \in done]_vars

(***************************************************************************)
(* C8 amended: the registration orders the three groups (control,          *)
(* integration, movers), then (clamping, height tracking), then (spawner,  *)
(* jump/fall, hazard evaluation), and inside them only control before      *)
(* integration and spawner before jump/fall.  Movers are unordered with    *)
(* control and integration, clamping with height tracking, and hazard      *)
(* evaluation with the spawner and the jump/fall decision: it always runs  *)
(* after clamping and height tracking, but may run before either of them.  *)
(***************************************************************************)
Unordered ==
    {<<"player_horizontal_control", "step_interpolation">>,
     <<"step_physics", "step_interpolation">>,
     <<"keep_player_in_bounds", "screen_tracking">>,
     <<"platform_spawner", "kill_player_on_damage">>,
     <<"player_falling_jumping", "kill_player_on_damage">>}

C8_PartialOrder ==
    [][\A i \in 1..8, j \in 1..8 :
          (/\ i < j
           /\ <<ListedOrder[i], ListedOrder[j]>> \notin Unordered
           /\ Fired(ListedOrder[j])) => ListedOrder[i] \in done]_vars

\* hazard evaluation has run and the spawner has not
C8_Witness ==
    /\ running
    /\ "kill_player_on_damage" \in done
    /\ "platform_spawner" \notin done
    /\ "player_falling_jumping" \notin done

(***************************************************************************)
(* C9: when damage evaluation found the player's box overlapping a         *)
(* hazard's, the player is absent once the run has ended; when it found no *)
(* overlap, the player is still there.                                     *)
(***************************************************************************)
C9_KilledOnOverlap ==
    /\ (kill_saw = "overlap" /\ running) => (pend_despawn \/ players = {})
    /\ (kill_saw = "overlap" /\ ~running) => players = {}
    /\ kill_saw = "clear" => (PlayerFound /\ ~pend_despawn)

\* a run has ended in which the player touched a hazard
C9_Witness == ~running /\ kill_saw = "overlap" /\ players = {}

(***************************************************************************)
(* C10: with no player entity, each player-dependent system completes and  *)
(* leaves the frontiers, the camera, the entities and the command queues   *)
(* as they were.                                                           *)
(***************************************************************************)
PlayerSystems ==
    {"player_horizontal_control", "keep_player_in_bounds", "screen_tracking",
     "player_falling_jumping", "kill_player_on_damage"}

C10_AbsentPlayerNoOp ==
    [][\A s \in PlayerSystems :
          (Fired(s) /\ players = {}) => UNCHANGED <<Entities, Queues, Frontiers>>]_vars

\* a whole run was completed without a player
C10_Witness == ~running /\ absent_at_start /\ PlayerSystems \subseteq done /\ players = {}

(***************************************************************************)
(* The player's systems on their own: one of them is applied to a player   *)
(* whose position and velocity are drawn from bounded sets, next to no     *)
(* platform or one.  StageDraws are the points of a run at which the three *)
(* systems start; the player is inside the world bounds except between     *)
(* integration and clamping.                                               *)
(***************************************************************************)
PlayerXDraws == {-300, -128, -127, -64, 0, 2, 3, 63, 64, 127, 128, 300}
PlayerVxDraws == {-MAX_HORIZONTAL_SPEED, -100, 0, 100, MAX_HORIZONTAL_SPEED}
PlayerVyDraws == {-MAX_FALL_SPEED, -600, -1, 0, 1, 100, JUMP_VELOCITY}
PlatformDraws == {{}, {PlatformEntity(0, 303)}, {PlatformEntity(25, 1)}}
StageDraws ==
    {{}, Group1, Group1 \cup Group2 \cup {"platform_spawner", "apply_deferred"}}

PlayerInit ==
    /\ \E x \in PlayerXDraws, vx \in PlayerVxDraws, vy \in PlayerVyDraws :
          players = {[PlayerEntity EXCEPT !.x = x, !.vx = vx, !.vy = vy]}
    /\ platforms \in PlatformDraws
    /\ done \in StageDraws
    /\ done # Group1 => \A p \in players : Abs(p.x) <= SCREEN_WIDTH - p.width
    /\ dt \in 1..MaxDt
    /\ hazards = {}
    /\ screen_height = 0
    /\ last_platform_spawn_height = IF platforms = {} THEN 0 ELSE 303
    /\ non_initial = (platforms # {})
    /\ camera_y = CAMERA_OFFSET
    /\ pend_platforms = {}
    /\ pend_hazards = {}
    /\ pend_despawn = FALSE
    /\ running = TRUE
    /\ ticks = 1
    /\ iters = 0
    /\ entry_gap = 0
    /\ last_incr = 0
    /\ kill_saw = "none"
    /\ absent_at_start = FALSE
    /\ keys = [left |-> FALSE, right |-> FALSE]

PlayerNext ==
    \/ player_horizontal_control
    \/ keep_player_in_bounds
    \/ player_falling_jumping

PlayerSpec == PlayerInit /\ [][PlayerNext]_vars

(***************************************************************************)
(* C11: in every reachable state the player's velocity.x lies in           *)
(* [-MAX_HORIZONTAL_SPEED, MAX_HORIZONTAL_SPEED].                          *)
(***************************************************************************)
C11_HorizontalSpeedBounded ==
    \A p \in players :
        -MAX_HORIZONTAL_SPEED <= p.vx /\ p.vx <= MAX_HORIZONTAL_SPEED

\* the acceleration of one run was cut off at the maximum speed
C11_Witness ==
    /\ PlayerFound
    /\ Abs(ThePlayer.vx) = MAX_HORIZONTAL_SPEED
    /\ HORIZONTAL_ACCELERATION * dt > MAX_HORIZONTAL_SPEED
    /\ running /\ "player_horizontal_control" \in done

(***************************************************************************)
(* C12: player_horizontal_control leaves velocity.x unchanged when both    *)
(* keys or neither are pressed, makes it max(-MAX_HORIZONTAL_SPEED,        *)
(* velocity.x - ACCEL*dt) with only left pressed and                       *)
(* min(MAX_HORIZONTAL_SPEED, velocity.x + ACCEL*dt) with only right        *)
(* pressed, and changes neither velocity.y nor the position.               *)
(***************************************************************************)
C12_ControlMapsKeys ==
    [][(Fired("player_horizontal_control") /\ PlayerFound) =>
          LET before == ThePlayer
              after == ThePlayer'
              step == HORIZONTAL_ACCELERATION * dt
          IN  /\ PlayerFound'
              /\ keys'.left = keys'.right => after.vx = before.vx
              /\ (keys'.left /\ ~keys'.right) =>
                    after.vx = (IF before.vx - step < -MAX_HORIZONTAL_SPEED
                                THEN -MAX_HORIZONTAL_SPEED
                                ELSE before.vx - step)
              /\ (~keys'.left /\ keys'.right) =>
                    after.vx = (IF before.vx + step > MAX_HORIZONTAL_SPEED
                                THEN MAX_HORIZONTAL_SPEED
                                ELSE before.vx + step)
              /\ after.vy = before.vy
              /\ after.x = before.x
              /\ after.y = before.y]_vars

\* only left was pressed and the velocity was cut off at the maximum
C12_Witness ==
    /\ "player_horizontal_control" \in done
    /\ keys.left /\ ~keys.right
    /\ PlayerFound
    /\ ThePlayer.vx = -MAX_HORIZONTAL_SPEED

(***************************************************************************)
(* The clamping of keep_player_in_bounds at a given bound: afterwards x is *)
(* within the bound; from outside it x is set to the nearer bound and      *)
(* velocity.x to 0; from inside it (bounds included) nothing changes.      *)
(***************************************************************************)
ClampedAt(bound) ==
    (Fired("keep_player_in_bounds") /\ PlayerFound) =>
        LET before == ThePlayer
            after == ThePlayer'
        IN  /\ PlayerFound'
            /\ -bound <= after.x /\ after.x <= bound
            /\ before.x > bound => (after.x = bound /\ after.vx = 0)
            /\ before.x < -bound => (after.x = -bound /\ after.vx = 0)
            /\ (-bound <= before.x /\ before.x <= bound) => after = before
            /\ after.y = before.y /\ after.vy = before.vy

(***************************************************************************)
(* C13 as stated: keep_player_in_bounds clamps the player's x at           *)
(* +-(screenWidth/2 - boxWidth).                                           *)
(***************************************************************************)
C13_ClampedAtHalfWidth ==
    [][ClampedAt((SCREEN_WIDTH \div 2) - SPRITE_SCALE)]_vars

(***************************************************************************)
(* C13 amended: keep_player_in_bounds clamps the player's x at             *)
(* +-(screenWidth - boxWidth), the whole screen-width constant less the    *)
(* box width (127): from outside, x is set to the nearer bound and         *)
(* velocity.x to 0; from inside (bounds included) x and velocity.x are     *)
(* unchanged.                                                              *)
(***************************************************************************)
C13_ClampedAtWidth ==
    [][ClampedAt(SCREEN_WIDTH - SPRITE_SCALE)]_vars

\* the player was stopped at the right bound
C13_Witness ==
    /\ "keep_player_in_bounds" \in done
    /\ "platform_spawner" \notin done
    /\ PlayerFound
    /\ ThePlayer.x = SCREEN_WIDTH - SPRITE_SCALE
    /\ ThePlayer.vx = 0

(***************************************************************************)
(* C14: player_falling_jumping sets velocity.y to JUMP_VELOCITY exactly    *)
(* when the velocity.y it finds is at or below 0.1 and the player's box    *)
(* overlaps a platform's; in every other case velocity.y becomes           *)
(* max(-MAX_FALL_SPEED, velocity.y - GRAVITY*dt), so from 0 with no        *)
(* platform and dt = 1 it becomes -GRAVITY.                                *)
(***************************************************************************)
OnPlatform(p) ==
    \E pl \in platforms :
        \/ Abs(p.x - pl.x) <= p.width + pl.width
        \/ Abs(p.y - pl.y) <= p.height + pl.height

C14_JumpOrFall ==
    [][(Fired("player_falling_jumping") /\ PlayerFound) =>
          LET before == ThePlayer
              after == ThePlayer'
              landing == 10 * before.vy <= 1 /\ OnPlatform(before)
              fallen == before.vy - GRAVITY * dt
          IN  /\ PlayerFound'
              /\ (after.vy = JUMP_VELOCITY) <=> landing
              /\ ~landing =>
                    after.vy = (IF fallen < -MAX_FALL_SPEED
                                THEN -MAX_FALL_SPEED
                                ELSE fallen)
              /\ (before.vy = 0 /\ platforms = {} /\ dt = 1) => after.vy = -GRAVITY
              /\ after.x = before.x /\ after.y = before.y
              /\ after.vx = before.vx]_vars

\* a player that was not ascending jumped off a platform
C14_Witness ==
    /\ "player_falling_jumping" \in done
    /\ PlayerFound
    /\ ThePlayer.vy = JUMP_VELOCITY
    /\ OnPlatform(ThePlayer)

(***************************************************************************)
(* Box::test_overlap on its own: the player at the origin and one other    *)
(* body, a platform or a damage source, with boxes and a position drawn    *)
(* from bounded sets; the two systems that call test_overlap are applied.  *)
(***************************************************************************)
ExtentDraws == {1, 3}
OffsetXDraws == {-7, -4, 0, 2, 3, 5, 7}
OffsetYDraws == {-7, -3, 0, 2, 4, 5, 7}
OverlapStage == Systems \ {"player_falling_jumping", "kill_player_on_damage"}

OverlapInit ==
    /\ \E w \in ExtentDraws, h \in ExtentDraws :
          players = {[PlayerEntity EXCEPT !.vy = 0, !.width = w, !.height = h]}
    /\ \E x \in OffsetXDraws, y \in OffsetYDraws,
          w \in ExtentDraws, h \in ExtentDraws :
          \/ /\ platforms = {[PlatformEntity(x, y) EXCEPT !.width = w, !.height = h]}
             /\ hazards = {}
          \/ /\ platforms = {}
             /\ hazards = {[SpikesEntity(x, y) EXCEPT !.width = w, !.height = h]}
    /\ done = OverlapStage
    /\ dt \in 1..MaxDt
    /\ screen_height = 0
    /\ last_platform_spawn_height = 0
    /\ non_initial = TRUE
    /\ camera_y = CAMERA_OFFSET
    /\ pend_platforms = {}
    /\ pend_hazards = {}
    /\ pend_despawn = FALSE
    /\ running = TRUE
    /\ ticks = 1
    /\ iters = 0
    /\ entry_gap = 0
    /\ last_incr = 0
    /\ kill_saw = "none"
    /\ absent_at_start = FALSE
    /\ keys = [left |-> FALSE, right |-> FALSE]

OverlapNext ==
    \/ player_falling_jumping
    \/ kill_player_on_damage

OverlapSpec == OverlapInit /\ [][OverlapNext]_vars

WithinX(a, b) == Abs(a.x - b.x) <= a.width + b.width
WithinY(a, b) == Abs(a.y - b.y) <= a.height + b.height

\* what the caller of test_overlap did with its result, for the one body b
Reported(b) ==
    IF b \in hazards THEN pend_despawn' ELSE ThePlayer'.vy = JUMP_VELOCITY

Tested ==
    /\ Fired("kill_player_on_damage") \/ Fired("player_falling_jumping")
    /\ PlayerFound
    /\ 10 * ThePlayer.vy <= 1
    /\ ~pend_despawn

TestedBodies ==
    IF Fired("kill_player_on_damage") THEN hazards ELSE platforms

(***************************************************************************)
(* C15: test_overlap is true exactly when the x distance of the centres is *)
(* at most the sum of the widths OR the y distance is at most the sum of   *)
(* the heights: true for equal centres, true when one axis only is within  *)
(* its combined extent, false exactly when both distances exceed theirs.   *)
(***************************************************************************)
C15_OverlapIsEitherAxis ==
    [][Tested =>
          \A b \in TestedBodies :
             LET p == ThePlayer
             IN  /\ TestedBodies = {b}
                 /\ Reported(b) <=> (WithinX(p, b) \/ WithinY(p, b))
                 /\ (p.x = b.x /\ p.y = b.y) => Reported(b)
                 /\ (WithinX(p, b) /\ ~WithinY(p, b)) => Reported(b)
                 /\ (~WithinX(p, b) /\ WithinY(p, b)) => Reported(b)
                 /\ ~Reported(b) <=> (~WithinX(p, b) /\ ~WithinY(p, b))]_vars

\* the player is despawned by a damage source that is near on one axis only
C15_Witness ==
    /\ "kill_player_on_damage" \in done
    /\ pend_despawn
    /\ \E p \in players, d \in hazards : WithinX(p, d) /\ ~WithinY(p, d)

(***************************************************************************)
(* C16: test_overlap is symmetric: the result the caller got for           *)
(* (player box, player position, other box, other position) is the result  *)
(* of test_overlap with the two bodies exchanged.                          *)
(***************************************************************************)
C16_OverlapSymmetric ==
    [][Tested =>
          \A b \in TestedBodies :
             LET p == ThePlayer
             IN  /\ Reported(b) <=> test_overlap(Box(b), Pos(b), Box(p), Pos(p))
                 /\ test_overlap(Box(p), Pos(p), Box(b), Pos(b))
                       <=> test_overlap(Box(b), Pos(b), Box(p), Pos(p))]_vars

\* the player jumped off a platform whose box differs from the player's on
\* both axes and whose centre is further away than the player's own extent
C16_Witness ==
    /\ "player_falling_jumping" \in done
    /\ \E p \in players, pl \in platforms :
          /\ p.vy = JUMP_VELOCITY
          /\ p.width # pl.width /\ p.height # pl.height
          /\ Abs(p.x - pl.x) > p.width /\ Abs(p.y - pl.y) > p.height

(***************************************************************************)
(* step_interpolation on its own: one mover as spawn_enemy builds it, or   *)
(* the same mover with the default mode Wrapping, ticked with a            *)
(* time.delta() drawn in milliseconds on both sides of the timer's         *)
(* duration.                                                               *)
(***************************************************************************)
DeltaMillisDraws == {250, 500, 1000, TIMER_MILLIS, 2 * TIMER_MILLIS}
EnemyHeightDraws == {678, 703, 728}
ModeDraws == {"Forward", "Wrapping"}

InterpInit ==
    /\ \E h \in EnemyHeightDraws, jx \in EnemyXDraws,
          jy0 \in EnemyYDraws, jy1 \in EnemyYDraws, m \in ModeDraws :
          hazards = {[EnemyEntity(h, jx, jy0, jx, jy1) EXCEPT !.mode = m]}
    /\ players = {}
    /\ platforms = {}
    /\ done = {}
    /\ dt = 1
    /\ screen_height = 0
    /\ last_platform_spawn_height = 0
    /\ non_initial = TRUE
    /\ camera_y = CAMERA_OFFSET
    /\ pend_platforms = {}
    /\ pend_hazards = {}
    /\ pend_despawn = FALSE
    /\ running = TRUE
    /\ ticks = 1
    /\ iters = 0
    /\ entry_gap = 0
    /\ last_incr = 0
    /\ kill_saw = "none"
    /\ absent_at_start = TRUE
    /\ keys = [left |-> FALSE, right |-> FALSE]

step_interpolation_millis ==
    /\ \E delta_millis \in DeltaMillisDraws :
          hazards' = {InterpolateMillis(e, delta_millis) : e \in hazards}
    /\ done' = {"step_interpolation"}
    /\ UNCHANGED <<players, platforms, Queues, Frontiers, Frame, keys, SpawnHistory, kill_saw>>

InterpNext == step_interpolation_millis

InterpSpec == InterpInit /\ [][InterpNext]_vars

Finishes(e, delta_millis) == e.elapsed + delta_millis >= TIMER_MILLIS
BackAndForth(e) == e.mode \in {"Forward", "Backward"}
Movers == {e \in hazards : e.mode # "Static"}
AtFirstEndpoint(e) == e.x = e.l0x /\ e.y = e.l0y
AtSecondEndpoint(e) == e.x = e.l1x /\ e.y = e.l1y

Parameter(e) == IF e.mode = "Backward" THEN TIMER_MILLIS - e.elapsed ELSE e.elapsed
Between(v, a, b) == Min(a, b) <= v /\ v <= Max(a, b)
Count(b) == IF b THEN 1 ELSE 0

(***************************************************************************)
(* C17: a BackAndForth interpolator's direction flips on exactly the ticks *)
(* on which the timer finishes, so after two finishing ticks the direction *)
(* is the original one, and at fraction 0 a Forward mover is at the first  *)
(* Line endpoint and a Backward mover at the second; a Wrapping            *)
(* interpolator's mode never changes.                                      *)
(***************************************************************************)
C17_FlipOnCompletion ==
    \A e \in Movers, d1 \in DeltaMillisDraws :
       LET e1 == InterpolateMillis(e, d1)
       IN  /\ BackAndForth(e) =>
                 /\ BackAndForth(e1)
                 /\ (e1.mode # e.mode) <=> Finishes(e, d1)
           /\ e.mode = "Wrapping" => e1.mode = "Wrapping"
           /\ e1.elapsed = (e.elapsed + d1) % TIMER_MILLIS
           /\ (e1.elapsed = 0 /\ e1.mode = "Forward") => AtFirstEndpoint(e1)
           /\ (e1.elapsed = 0 /\ e1.mode = "Backward") => AtSecondEndpoint(e1)
           /\ \A d2 \in DeltaMillisDraws, d3 \in DeltaMillisDraws :
                 LET e2 == InterpolateMillis(e1, d2)
                     e3 == InterpolateMillis(e2, d3)
                     n == Count(Finishes(e, d1)) + Count(Finishes(e1, d2))
                             + Count(Finishes(e2, d3))
                 IN  /\ n = 2 => e3.mode = e.mode
                     /\ (n = 2 /\ e.mode = "Forward" /\ e3.elapsed = 0)
                           => AtFirstEndpoint(e3)

\* a mover that turned round exactly at the end of a cycle
C17_Witness ==
    /\ "step_interpolation" \in done
    /\ \E e \in hazards :
          e.mode = "Backward" /\ e.elapsed = 0 /\ AtSecondEndpoint(e)

(***************************************************************************)
(* C18: ticked with a delta shorter than the timer's duration, a           *)
(* BackAndForth mover's interpolation parameter stays in [0, 1] and moves  *)
(* by at most delta/duration per tick, the tick of the flip included, and  *)
(* so does its position along the Line; a Wrapping mover's parameter       *)
(* drops back on the tick its cycle completes and rises on the others.     *)
(***************************************************************************)
C18_NoTeleport ==
    \A e \in Movers, d \in DeltaMillisDraws :
       d < TIMER_MILLIS =>
          LET e1 == InterpolateMillis(e, d)
          IN  /\ Parameter(e1) \in 0..TIMER_MILLIS
              /\ Between(e1.x, e.l0x, e.l1x)
              /\ Between(e1.y, e.l0y, e.l1y)
              /\ BackAndForth(e) =>
                    /\ Abs(Parameter(e1) - Parameter(e)) <= d
                    /\ TIMER_MILLIS * Abs(e1.x - e.x)
                          <= Abs(e.l1x - e.l0x) * d + TIMER_MILLIS
                    /\ TIMER_MILLIS * Abs(e1.y - e.y)
                          <= Abs(e.l1y - e.l0y) * d + TIMER_MILLIS
              /\ e.mode = "Wrapping" =>
                    IF Finishes(e, d)
                    THEN Parameter(e1) < Parameter(e) /\ e1.x < e.x
                    ELSE Parameter(e1) = Parameter(e) + d /\ e1.x > e.x

\* a mover that has been ticked and is within one short tick of the far end
C18_Witness ==
    /\ "step_interpolation" \in done
    /\ \E e \in hazards :
          /\ e.mode = "Forward"
          /\ e.elapsed > 0
          /\ e.elapsed + 250 >= TIMER_MILLIS

(***************************************************************************)
(* C19: the player's removal is terminal.  Once the player is removed it   *)
(* never exists again, and from the end of the run that removed it         *)
(* ScreenHeight and LastPlatformSpawnHeight stay as they are, the          *)
(* spawner's loop condition is false, and no platform or damage source is  *)
(* spawned.                                                                *)
(***************************************************************************)
Gone == players = {} /\ (running => absent_at_start)

C19_RemovalTerminal ==
    [][/\ players = {} => players' = {}
       /\ Gone =>
             /\ Gone'
             /\ ~SpawnerPending(screen_height, last_platform_spawn_height)
             /\ screen_height' = screen_height
             /\ last_platform_spawn_height' = last_platform_spawn_height
             /\ camera_y' = camera_y
             /\ platforms' = platforms
             /\ pend_platforms' = {} /\ pend_hazards' = {}
             /\ Cardinality(hazards') <= Cardinality(hazards)
             /\ ~pend_despawn']_vars

\* the spawner has run and returned in a run that began without the player,
\* after the player had climbed and platforms had been spawned
C19_Witness ==
    /\ Gone
    /\ running
    /\ "platform_spawner" \in done
    /\ screen_height > 0
    /\ platforms # {}

(***************************************************************************)
(* C20: whenever the player exists its velocity.y is within                *)
(* [-MAX_FALL_SPEED, JUMP_VELOCITY]: it is SPAWN_VELOCITY.y at the start   *)
(* and only a step of player_falling_jumping changes it, to JUMP_VELOCITY  *)
(* or to a lower value not below -MAX_FALL_SPEED.                          *)
(***************************************************************************)
VerticalSpeedInRange(p) == -MAX_FALL_SPEED <= p.vy /\ p.vy <= JUMP_VELOCITY

C20_VerticalSpeedBounded ==
    [][/\ \A p \in players \cup players' : VerticalSpeedInRange(p)
       /\ (ticks = 0 /\ PlayerFound) => ThePlayer.vy = SPAWN_VELOCITY_Y
       /\ (PlayerFound /\ PlayerFound' /\ ThePlayer'.vy # ThePlayer.vy) =>
             /\ Fired("player_falling_jumping")
             /\ \/ ThePlayer'.vy = JUMP_VELOCITY
                \/ ThePlayer'.vy < ThePlayer.vy]_vars

\* the player has fallen long enough for the floor of the fall speed to apply
C20_Witness ==
    /\ "player_falling_jumping" \in done
    /\ PlayerFound
    /\ ThePlayer.vy = -MAX_FALL_SPEED

====
